---- MODULE Spec2Model ----
(***************************************************************************)
(* A model of IP_portfolio_valuation.py: the IPAsset class hierarchy       *)
(* (LicensedIP, InternalIP, SubscriptionIP), the Python list objects the   *)
(* instances refer to, and the Streamlit script that builds and values a   *)
(* portfolio on every rerun.                                               *)
(*                                                                         *)
(* Numbers.  Python's int and float values are modelled as exact rational  *)
(* numbers <<n, d>> in lowest terms with d > 0; +, *, / and ** are the     *)
(* exact operations, so binary64 rounding is outside the model.            *)
(***************************************************************************)
EXTENDS Integers, Sequences, FiniteSets, TLC

VARIABLES
    lists,          \* the heap of Python list objects: list id -> sequence
    assets,         \* variable name -> the IPAsset instance bound to it
    discount_rate,  \* the caller's discount_rate variable
    allocation_pct, \* the caller's allocation fraction variable
    returned,       \* variable name -> last value net_present_value returned
    calls,          \* variable name -> number of net_present_value calls
    given,          \* variable name -> the constructor's inputs, by value
    widgets,        \* Streamlit's widget state, kept from one rerun to the next
    total_value,    \* the script's total_value
    shown,          \* what the last rerun put on the page
    seen            \* an earlier rerun's inputs and outputs, once one is noted

script == <<widgets, total_value, shown, seen>>

vars == <<lists, assets, discount_rate, allocation_pct, returned, calls, given,
          widgets, total_value, shown, seen>>

----------------------------------------------------------------------------
(* Bounds of the model *)

MaxLen == 2        \* longest cash-flow list the harness caller builds
MaxCalls == 2      \* net_present_value calls counted per instance
MaxYear == 3       \* largest years_until_sale the harness caller passes
MaxSince == 2      \* reruns counted after a cycle was noted

----------------------------------------------------------------------------
(* Exact rational arithmetic standing for Python's numeric operators *)

Abs(n) == IF n < 0 THEN -n ELSE n

RECURSIVE GCD(_, _)
GCD(a, b) == IF b = 0 THEN a ELSE GCD(b, a % b)

Rat(n, d) ==
    LET g == GCD(Abs(n), Abs(d))
        s == IF d < 0 THEN -1 ELSE 1
    IN  <<(s * n) \div g, (s * d) \div g>>

Num(n) == <<n, 1>>

RatAdd(x, y) ==
    LET l == (x[2] \div GCD(x[2], y[2])) * y[2]
    IN  Rat(x[1] * (l \div x[2]) + y[1] * (l \div y[2]), l)

RatMul(x, y) ==
    LET a == Rat(x[1], y[2])
        b == Rat(y[1], x[2])
    IN  <<a[1] * b[1], a[2] * b[2]>>

RatDiv(x, y) == RatMul(x, <<y[2], y[1]>>)

RECURSIVE RatPow(_, _)
RatPow(x, n) == IF n = 0 THEN Num(1) ELSE RatMul(x, RatPow(x, n - 1))

RatLess(x, y) == x[1] * y[2] < y[1] * x[2]

\* np.sum over a list, and the builtin sum: left to right from 0
RECURSIVE np_sum(_)
np_sum(s) ==
    IF s = <<>> THEN Num(0)
    ELSE RatAdd(np_sum(SubSeq(s, 1, Len(s) - 1)), s[Len(s)])

----------------------------------------------------------------------------
(* The classes *)

None == [cls |-> "None"]

\* IPAsset.__init__: the three fields are bound to the arguments as given;
\* cash_flows is the reference (list id) that was passed, not a copy.
IPAsset(cls, name, cash_flows, rate) ==
    [cls |-> cls, name |-> name, cash_flows |-> cash_flows,
     discount_rate |-> rate]

\* class LicensedIP(IPAsset): pass
LicensedIP(name, cash_flows, rate) ==
    IPAsset("LicensedIP", name, cash_flows, rate)

\* InternalIP.__init__: super().__init__(name, [], rate) with a fresh empty
\* list at id fresh, then the two extra fields.
InternalIP(name, sale_value, years_until_sale, rate, fresh) ==
    IPAsset("InternalIP", name, fresh, rate) @@
    [sale_value |-> sale_value, years_until_sale |-> years_until_sale]

\* Mutant: the revenue is taken whole, the allocation is not applied
unallocated_flows(total_app_cash_flows, ip_allocation_percent) ==
    total_app_cash_flows

\* the list comprehension [cf * ip_allocation_percent for cf in ...]
allocated_flows(total_app_cash_flows, ip_allocation_percent) ==
    [i \in 1..Len(total_app_cash_flows) |->
        RatMul(total_app_cash_flows[i], ip_allocation_percent)]

\* SubscriptionIP.__init__: the comprehension builds a new list object (at
\* id fresh) which is what the instance keeps.
SubscriptionIP(name, rate, fresh) ==
    IPAsset("SubscriptionIP", name, fresh, rate)

\* Mutant: i counts from 0, as enumerate does without start=1
BaseNPVFromZero(cash_flows, rate) ==
    np_sum([i \in 1..Len(cash_flows) |->
        RatDiv(cash_flows[i], RatPow(RatAdd(Num(1), rate), i - 1))])

\* Mutant: * written for **, so the divisor is not a power
BaseNPVTimesIndex(cash_flows, rate) ==
    np_sum([i \in 1..Len(cash_flows) |->
        RatMul(RatDiv(cash_flows[i], RatAdd(Num(1), rate)), Num(i))])

\* IPAsset.net_present_value on the contents of self.cash_flows:
\* np.sum([cf / (1 + r)**i for i, cf in enumerate(cash_flows, start=1)])
BaseNPV(cash_flows, rate) ==
    np_sum([i \in 1..Len(cash_flows) |->
        RatDiv(cash_flows[i], RatPow(RatAdd(Num(1), rate), i))])

\* Mutant: the sale value is compounded instead of discounted
InternalNPVCompounded(sale_value, rate, years_until_sale) ==
    RatMul(sale_value, RatPow(RatAdd(Num(1), rate), years_until_sale))

\* InternalIP.net_present_value
InternalNPV(sale_value, rate, years_until_sale) ==
    RatDiv(sale_value, RatPow(RatAdd(Num(1), rate), years_until_sale))

\* ip.net_present_value(): dispatch on the class; heap is the list heap
net_present_value(self, heap) ==
    IF self.cls = "InternalIP"
    THEN InternalNPV(self.sale_value, self.discount_rate, self.years_until_sale)
    ELSE BaseNPV(heap[self.cash_flows], self.discount_rate)

----------------------------------------------------------------------------
(* A caller of the classes: it owns one list, binds instances to the names *)
(* a and b, calls net_present_value on them, and (in SpecAlias) goes on    *)
(* mutating the list it passed to the constructors.                        *)

Slots == {"a", "b"}

\* the id of the list object each constructor call allocates
OwnList == [a |-> "list_a", b |-> "list_b",
            internal |-> "list_internal", sub_ip |-> "allocated_flows"]

CashValues == {Num(0), Num(3)}
CashSeqs == UNION {[1..n -> CashValues] : n \in 0..MaxLen}
Rates == {Num(0), Rat(1, 10), Rat(1, 5)}
Allocations == {Num(0), Rat(1, 5), Num(1)}
SaleValues == {Num(0), Num(3)}

InitCaller ==
    /\ lists \in {("caller_cf" :> s) : s \in CashSeqs}
    /\ assets = [s \in Slots |-> None]
    /\ discount_rate \in Rates
    /\ allocation_pct \in Allocations
    /\ returned = [s \in Slots |-> <<>>]
    /\ calls = [s \in Slots |-> 0]
    /\ given = [s \in Slots |-> None]
    /\ widgets = None
    /\ total_value = Num(0)
    /\ shown = None
    /\ seen = None

\* what the constructor was given, by value, and the NPV at that moment
Given(cash_flows, allocation, asset, heap) ==
    [cash_flows |-> cash_flows, allocation |-> allocation,
     npv |-> net_present_value(asset, heap)]

\* a = LicensedIP("Licensed IP", caller_cf, discount_rate)
ConstructLicensed(s) ==
    /\ assets[s].cls = "None"
    /\ LET new == LicensedIP("Licensed IP", "caller_cf", discount_rate)
       IN  /\ assets' = [assets EXCEPT ![s] = new]
           /\ given' = [given EXCEPT ![s] =
                  Given(lists["caller_cf"], Num(1), new, lists)]
    /\ UNCHANGED <<lists, discount_rate, allocation_pct, returned, calls, script>>

\* a = InternalIP("Internal IP", sale_value, years_until_sale, discount_rate)
ConstructInternal(s, sale_value, years_until_sale) ==
    /\ assets[s].cls = "None"
    /\ LET new == InternalIP("Internal IP", sale_value, years_until_sale,
                             discount_rate, OwnList[s])
           heap == (OwnList[s] :> <<>>) @@ lists
       IN  /\ assets' = [assets EXCEPT ![s] = new]
           /\ lists' = heap
           /\ given' = [given EXCEPT ![s] = Given(<<>>, Num(1), new, heap)]
    /\ UNCHANGED <<discount_rate, allocation_pct, returned, calls, script>>

\* Mutant: the input list is scaled in place and kept, no new list is built
SubscriptionHeapInPlace(heap, src, allocation, fresh) ==
    [heap |-> [heap EXCEPT ![src] = allocated_flows(heap[src], allocation)],
     ref |-> src]

\* The heap after SubscriptionIP.__init__ and the reference it stores: the
\* comprehension reads the input list src and allocates the result at fresh.
SubscriptionHeap(heap, src, allocation, fresh) ==
    [heap |-> (fresh :> allocated_flows(heap[src], allocation)) @@ heap,
     ref |-> fresh]

\* a = SubscriptionIP("Subscription IP", caller_cf, allocation_pct, discount_rate)
ConstructSubscription(s) ==
    /\ assets[s].cls = "None"
    /\ LET built == SubscriptionHeap(lists, "caller_cf", allocation_pct,
                                     OwnList[s])
           new == SubscriptionIP("Subscription IP", discount_rate, built.ref)
       IN  /\ assets' = [assets EXCEPT ![s] = new]
           /\ lists' = built.heap
           /\ given' = [given EXCEPT ![s] =
                  Given(lists["caller_cf"], allocation_pct, new, built.heap)]
    /\ UNCHANGED <<discount_rate, allocation_pct, returned, calls, script>>

\* Mutant: the method consumes self.cash_flows while summing it
NPVEffectConsumes(self, heap) ==
    [self |-> self, heap |-> [heap EXCEPT ![self.cash_flows] = <<>>]]

\* What a net_present_value call leaves behind: neither method assigns to
\* self or touches the list, so the instance and the heap are as before.
NPVEffect(self, heap) == [self |-> self, heap |-> heap]

\* a.net_present_value()
Call(s) ==
    /\ assets[s].cls # "None"
    /\ calls[s] < MaxCalls
    /\ returned' = [returned EXCEPT ![s] = <<net_present_value(assets[s], lists)>>]
    /\ calls' = [calls EXCEPT ![s] = @ + 1]
    /\ LET after == NPVEffect(assets[s], lists)
       IN  /\ assets' = [assets EXCEPT ![s] = after.self]
           /\ lists' = after.heap
    /\ UNCHANGED <<discount_rate, allocation_pct, given, script>>

\* allocation_pct = a
ChangeAllocation(a) ==
    /\ a # allocation_pct
    /\ allocation_pct' = a
    /\ UNCHANGED <<lists, assets, discount_rate, returned, calls, given, script>>

\* caller_cf[i] = v
Overwrite(i, v) ==
    /\ i \in 1..Len(lists["caller_cf"])
    /\ lists["caller_cf"][i] # v
    /\ lists' = [lists EXCEPT !["caller_cf"][i] = v]
    /\ UNCHANGED <<assets, discount_rate, allocation_pct, returned, calls, given, script>>

\* caller_cf.append(v)
AppendEntry(v) ==
    /\ Len(lists["caller_cf"]) < MaxLen
    /\ lists' = [lists EXCEPT !["caller_cf"] = Append(@, v)]
    /\ UNCHANGED <<assets, discount_rate, allocation_pct, returned, calls, given, script>>

\* caller_cf.pop()
RemoveEntry ==
    /\ Len(lists["caller_cf"]) > 0
    /\ lists' = [lists EXCEPT !["caller_cf"] = SubSeq(@, 1, Len(@) - 1)]
    /\ UNCHANGED <<assets, discount_rate, allocation_pct, returned, calls, given, script>>

\* Construction and valuation only
Next ==
    \/ \E s \in Slots : ConstructLicensed(s)
    \/ \E s \in Slots, v \in SaleValues, y \in 1..MaxYear : ConstructInternal(s, v, y)
    \/ \E s \in Slots : ConstructSubscription(s)
    \/ \E s \in Slots : Call(s)
    \/ \E a \in Allocations : ChangeAllocation(a)

Spec == InitCaller /\ [][Next]_vars

\* One instance whose caller keeps changing its own variables afterwards
NextAlias ==
    \/ ConstructLicensed("a")
    \/ ConstructSubscription("a")
    \/ Call("a")
    \/ \E a \in Allocations : ChangeAllocation(a)
    \/ \E i \in 1..MaxLen, v \in CashValues : Overwrite(i, v)
    \/ \E v \in CashValues : AppendEntry(v)
    \/ RemoveEntry

SpecAlias == InitCaller /\ [][NextAlias]_vars

----------------------------------------------------------------------------
(* Properties of the valuation methods (checked under Spec) *)

Valued(s) == assets[s].cls # "None" /\ returned[s] # <<>>

UsesBase(s) == assets[s].cls \in {"LicensedIP", "SubscriptionIP"}

\* the sum over i = 1..n of cf[i] / (1 + r)^i
RECURSIVE DiscountedSum(_, _, _)
DiscountedSum(cf, r, n) ==
    IF n = 0 THEN Num(0)
    ELSE RatAdd(DiscountedSum(cf, r, n - 1),
                RatDiv(cf[n], RatPow(RatAdd(Num(1), r), n)))

\* cf is zero everywhere but at position i
OnlyEntry(cf, i) ==
    /\ i \in 1..Len(cf)
    /\ cf[i] # Num(0)
    /\ \A j \in 1..Len(cf) : j # i => cf[j] = Num(0)

\* C1: for a LicensedIP or SubscriptionIP, net_present_value returns the sum
\* over i = 1..n of cf[i] / (1 + r)^i of its cash flows, the first entry
\* discounted by one period; a sequence whose only non-zero entry is at
\* position i yields cf[i] / (1 + r)^i, i.e. the result times (1 + r)^i is
\* cf[i].
C1_DiscountedFromYearOne ==
    \A s \in Slots : Valued(s) /\ UsesBase(s) =>
        LET cf == lists[assets[s].cash_flows]
            r == assets[s].discount_rate
        IN  /\ returned[s][1] = DiscountedSum(cf, r, Len(cf))
            /\ \A i \in 1..Len(cf) : OnlyEntry(cf, i) =>
                   RatMul(returned[s][1], RatPow(RatAdd(Num(1), r), i)) = cf[i]

\* a LicensedIP and a SubscriptionIP valued at a rate > 0, the only non-zero
\* cash flow of each in year 2
C1_Witness ==
    /\ Valued("a") /\ Valued("b")
    /\ assets["a"].cls = "LicensedIP" /\ assets["b"].cls = "SubscriptionIP"
    /\ assets["a"].discount_rate # Num(0)
    /\ OnlyEntry(lists[assets["a"].cash_flows], 2)
    /\ OnlyEntry(lists[assets["b"].cash_flows], 2)

RECURSIVE RawSum(_)
RawSum(cf) == IF cf = <<>> THEN Num(0) ELSE RatAdd(Head(cf), RawSum(Tail(cf)))

\* C2: with discount rate 0 the value net_present_value returns for a
\* LicensedIP or SubscriptionIP is the plain sum of its cash flows, whatever
\* the length of the sequence (0 for the empty one).
C2_ZeroRateIsRawSum ==
    \A s \in Slots :
        Valued(s) /\ UsesBase(s) /\ assets[s].discount_rate = Num(0) =>
            returned[s][1] = RawSum(lists[assets[s].cash_flows])

\* rate 0: an instance valued over two non-zero cash flows
C2_Witness ==
    /\ discount_rate = Num(0)
    /\ Valued("a") /\ assets["a"].cls = "LicensedIP"
    /\ lists["caller_cf"] = <<Num(3), Num(3)>>
    /\ returned["a"] = <<Num(6)>>


BothInternal(s, t) ==
    /\ Valued(s) /\ Valued(t)
    /\ assets[s].cls = "InternalIP" /\ assets[t].cls = "InternalIP"
    /\ assets[s].sale_value = assets[t].sale_value
    /\ assets[s].discount_rate = assets[t].discount_rate

\* C3: of two InternalIP instances with the same sale value > 0 and the same
\* rate > 0, the one with the larger years_until_sale has the strictly
\* smaller NPV.
C3_InternalDecreasingInYears ==
    \A s, t \in Slots :
        /\ BothInternal(s, t)
        /\ RatLess(Num(0), assets[s].sale_value)
        /\ RatLess(Num(0), assets[s].discount_rate)
        /\ assets[s].years_until_sale < assets[t].years_until_sale
        => RatLess(returned[t][1], returned[s][1])

C3_Witness ==
    /\ BothInternal("a", "b")
    /\ RatLess(Num(0), assets["a"].sale_value)
    /\ RatLess(Num(0), assets["a"].discount_rate)
    /\ assets["a"].years_until_sale + 1 = assets["b"].years_until_sale

BothSubscription(s, t) ==
    /\ Valued(s) /\ Valued(t)
    /\ assets[s].cls = "SubscriptionIP" /\ assets[t].cls = "SubscriptionIP"
    /\ given[s].cash_flows = given[t].cash_flows
    /\ assets[s].discount_rate = assets[t].discount_rate

\* C4: of two SubscriptionIP instances built from the same revenue sequence
\* and rate, one with allocation a in [0, 1] and one with allocation 1, the
\* first one's NPV is a times the second one's.
C4_SubscriptionLinearInAllocation ==
    \A s, t \in Slots :
        BothSubscription(s, t) /\ given[t].allocation = Num(1) =>
            returned[s][1] = RatMul(given[s].allocation, returned[t][1])

\* a fractional allocation of a revenue sequence with a non-zero NPV
C4_Witness ==
    /\ BothSubscription("a", "b")
    /\ given["b"].allocation = Num(1)
    /\ given["a"].allocation = Rat(1, 5)
    /\ returned["b"][1] # Num(0)
    /\ Len(given["a"].cash_flows) = 2


\* the inputs an instance was constructed with
Inputs(s) == <<assets[s].cls, given[s].cash_flows, given[s].allocation,
               assets[s].discount_rate,
               IF assets[s].cls = "InternalIP"
               THEN <<assets[s].sale_value, assets[s].years_until_sale>>
               ELSE <<>> >>

\* a step that is a net_present_value call on s
CallStep(s) == calls'[s] = calls[s] + 1

C6_CallFrame ==
    \A s \in Slots : CallStep(s) =>
        /\ assets' = assets
        /\ lists' = lists
        /\ calls[s] > 0 => returned'[s] = returned[s]

C6_SameInputsSameNPV ==
    \A s, t \in Slots :
        Valued(s) /\ Valued(t) /\ Inputs(s) = Inputs(t) =>
            returned[s] = returned[t]

\* C6: a net_present_value call changes no field of any instance and no
\* list, a repeated call on an instance returns what the call before it
\* returned, and two instances constructed with the same inputs return equal
\* values.
C6_NPVPureAndDeterministic ==
    [][C6_CallFrame]_vars /\ []C6_SameInputsSameNPV

\* both instances built from the same inputs, each valued twice
C6_Witness ==
    /\ calls["a"] = 2 /\ calls["b"] = 2
    /\ Inputs("a") = Inputs("b")
    /\ assets["a"].cls = "SubscriptionIP"
    /\ returned["a"][1] # Num(0)



----------------------------------------------------------------------------
(* Properties of an instance whose caller mutates its own variables       *)
(* afterwards (checked under SpecAlias)                                    *)

\* the caller has since changed the list and the allocation it passed
CallerMovedOn(s) ==
    /\ lists["caller_cf"] # given[s].cash_flows
    /\ allocation_pct # given[s].allocation

\* the instance's sequence and NPV are what they were at construction
AsConstructed(s, flows) ==
    /\ lists[assets[s].cash_flows] = flows
    /\ net_present_value(assets[s], lists) = given[s].npv
    /\ returned[s] # <<>> => returned[s][1] = given[s].npv

\* C7: a SubscriptionIP's cash_flows is the revenue sequence it was given
\* scaled entry by entry by the allocation it was given (same length, same
\* order), and it and the NPV stay so whatever the caller afterwards does to
\* the revenue list (overwrite, append, remove) or the allocation variable.
C7_SubscriptionKeepsItsOwnFlows ==
    \A s \in Slots : assets[s].cls = "SubscriptionIP" =>
        /\ Len(lists[assets[s].cash_flows]) = Len(given[s].cash_flows)
        /\ \A i \in 1..Len(given[s].cash_flows) :
               lists[assets[s].cash_flows][i] =
                   RatMul(given[s].cash_flows[i], given[s].allocation)
        /\ AsConstructed(s, lists[assets[s].cash_flows])

\* valued twice while the caller's list and allocation are no longer what
\* the constructor saw
C7_Witness ==
    /\ assets["a"].cls = "SubscriptionIP"
    /\ calls["a"] = 2
    /\ CallerMovedOn("a")
    /\ given["a"].npv # Num(0)
    /\ Len(lists["caller_cf"]) # Len(given["a"].cash_flows)

\* C8: a LicensedIP's cash-flow sequence and NPV are what they were at
\* construction, whatever the caller afterwards does to the list it passed.
C8_LicensedImmutable ==
    \A s \in Slots : assets[s].cls = "LicensedIP" =>
        AsConstructed(s, given[s].cash_flows)

----------------------------------------------------------------------------
(* The Streamlit script.  Streamlit keeps the widgets' values between      *)
(* reruns and runs the whole script again, top to bottom, each time the    *)
(* user changes one of them.                                               *)

MinYears == 3             \* st.sidebar.slider("Number of forecast years", 3, 10, 5)
MaxYears == 10
LicensedDefault == 10000  \* number_input(..., value=10000)
SaleValueDefault == 50000 \* number_input("Estimated Sale Value", value=50000)
SaleYearMin == 1          \* st.sidebar.slider("Years Until Sale", 1, years, 3)
SaleYearDefault == 3
RevenueBase == 50000      \* value=50000 + i*2000
RevenueStep == 2000
Percent == 100            \* the sliders are in percent: slider(...) / 100

\* The slider and number_input values the model's user picks from; each set
\* lies within the widget's range (horizon 3..10, rate 1..20%, allocation
\* 0..100%, amounts >= 0).
Horizons == {y \in MinYears..MaxYears : y <= MinYears + 1}
RatePcts == {Num(20), Rat(25, 2)}
AllocationPcts == {Num(0), Num(20), Num(100)}
LicensedInputs == {Num(0), Num(1), Num(LicensedDefault)}
SaleValueInputs == {Num(1), Num(SaleValueDefault)}
RevenueInputs == {Num(0)}
EditedYears == {1, 2}   \* the number inputs the model's user types into

Names == <<"licensed", "internal", "sub_ip">>

\* the default of the number input "App Revenue Year {i+1}", i = k - 1
RevenueDefault(k) == Num(RevenueBase + (k - 1) * RevenueStep)

\* [st.sidebar.number_input(f"Year {i+1} Cash Flow", ...) for i in range(years)]:
\* a number input that was on the page in the last run returns its kept
\* value, one that was not returns its default.
licensed_cf(w) ==
    [k \in 1..w.years |->
        IF k <= Len(w.licensed) THEN w.licensed[k] ELSE Num(LicensedDefault)]

\* [st.sidebar.number_input(f"App Revenue Year {i+1}", ...) for i in range(years)]
total_app_cf(w) ==
    [k \in 1..w.years |->
        IF k <= Len(w.revenue) THEN w.revenue[k] ELSE RevenueDefault(k)]

\* Mutant: the slider keeps its value when its maximum changes
SaleYearKept(w) == w.sale_year.value

\* st.sidebar.slider("Years Until Sale", 1, years, 3): a slider is identified
\* by its arguments, so with another maximum it is a new slider, at its
\* default; with the same maximum it returns the value the user left it at.
sale_year(w) ==
    IF w.sale_year.max = w.years THEN w.sale_year.value ELSE SaleYearDefault

\* f"${x:,.2f}": x rounded to a whole number of cents, ties to even
Cents(x) ==
    LET whole == x[1] \div x[2]
        part == (x[1] % x[2]) * 100
        c == whole * 100 + part \div x[2]
        twice == 2 * (part % x[2])
    IN  IF twice > x[2] \/ (twice = x[2] /\ c % 2 = 1) THEN c + 1 ELSE c

\* the widget state after a run on w: what each widget call returned
Rendered(w) ==
    [w EXCEPT !.licensed = licensed_cf(w),
              !.revenue = total_app_cf(w),
              !.sale_year = [max |-> w.years, value |-> sale_year(w)]]

\* the list objects a run on w builds: the two lists of number inputs, the
\* [] of InternalIP.__init__ and the list of SubscriptionIP.__init__
ScriptLists(w) ==
    SubscriptionHeap(("licensed_cf" :> w.licensed) @@
                     ("total_app_cf" :> w.revenue) @@
                     (OwnList["internal"] :> <<>>),
                     "total_app_cf", RatDiv(w.allocation_pct, Num(Percent)),
                     OwnList["sub_ip"]).heap

\* Mutant: the licensed asset of the run before is kept while the licensed
\* cash flows are the ones it was built from
ScriptAssetsKeepingLicensed(w, old) ==
    LET rate == RatDiv(w.rate_pct, Num(Percent))
    IN  [licensed |-> IF old.lists["licensed_cf"] = w.licensed
                      THEN old.assets["licensed"]
                      ELSE LicensedIP("Licensed IP", "licensed_cf", rate),
         internal |-> InternalIP("Internal IP", w.sale_value, w.sale_year.value,
                                 rate, OwnList["internal"]),
         sub_ip |-> SubscriptionIP("Subscription IP", rate, OwnList["sub_ip"])]

\* licensed = LicensedIP(...); internal = InternalIP(...); sub_ip =
\* SubscriptionIP(...): the three names are bound to new instances built from
\* this run's values.  old is what the run before left behind (its lists
\* and instances); the script reads none of it.
ScriptAssets(w, old) ==
    LET rate == RatDiv(w.rate_pct, Num(Percent))
    IN  [licensed |-> LicensedIP("Licensed IP", "licensed_cf", rate),
         internal |-> InternalIP("Internal IP", w.sale_value, w.sale_year.value,
                                 rate, OwnList["internal"]),
         sub_ip |-> SubscriptionIP("Subscription IP", rate, OwnList["sub_ip"])]

\* Mutant: the portfolio list leaves the subscription asset out
PortfolioWithoutSubscription == <<"licensed", "internal">>

\* portfolio = [licensed, internal, sub_ip]
portfolio == Names

\* total_value = sum(ip.net_present_value() for ip in portfolio)
TotalValue(npv) == np_sum([k \in 1..Len(portfolio) |-> npv[portfolio[k]][1]])

\* the page: the metric, one line per asset, and the two charts
Page(made, heap, npv, total) ==
    [\* st.metric("Total Portfolio Value", f"${total_value:,.2f}")
     total |-> Cents(total),
     \* st.write(f"**{ip.name}**: ${ip.net_present_value():,.2f}")
     lines |-> [k \in 1..Len(portfolio) |->
                   [name |-> made[portfolio[k]].name,
                    npv |-> Cents(npv[portfolio[k]][1])]],
     \* plot_cash_flows: if ip.cash_flows: ax.plot(...)
     cash_flow_chart |-> [n \in {m \in DOMAIN made :
                                    heap[made[m].cash_flows] # <<>>} |->
                             heap[made[n].cash_flows]],
     \* plot_valuation_breakdown
     bars |-> [k \in 1..Len(portfolio) |->
                  [name |-> made[portfolio[k]].name, value |-> npv[portfolio[k]][1]]]]

\* before the first run there are no lists and no instances
NoRun == [lists |-> ("licensed_cf" :> <<>>), assets |-> [licensed |-> None]]

\* a noted cycle counts the runs that came after it
Later(s) ==
    IF s.cls = "Cycle" /\ s.since < MaxSince
    THEN [s EXCEPT !.since = @ + 1] ELSE s

\* One run of the script, top to bottom, on the widget state w
Rerun(w) ==
    /\ widgets' = Rendered(w)
    /\ discount_rate' = RatDiv(widgets'.rate_pct, Num(Percent))
    /\ allocation_pct' = RatDiv(widgets'.allocation_pct, Num(Percent))
    /\ lists' = ScriptLists(widgets')
    /\ assets' = ScriptAssets(widgets', [lists |-> lists, assets |-> assets])
    /\ returned' = [n \in DOMAIN assets' |-> <<net_present_value(assets'[n], lists')>>]
    \* each instance is valued at lines 68, 72 and 89
    /\ calls' = [n \in DOMAIN assets' |-> 3]
    /\ total_value' = TotalValue(returned')
    /\ shown' = Page(assets', lists', returned', total_value')
    /\ seen' = Later(seen)
    /\ UNCHANGED given

\* The page with the horizon moved to 3 and the rate to 20%, everything else
\* at its default.  (The very first run, at 5 years and 8%, is outside the
\* values explored here: its exact NPVs over 27/25 do not fit the 32-bit
\* integers the rationals are built from.)
FirstWidgets ==
    Rendered([years |-> MinYears, rate_pct |-> Num(20), licensed |-> <<>>,
              sale_value |-> Num(SaleValueDefault),
              sale_year |-> [max |-> MinYears, value |-> SaleYearDefault],
              revenue |-> <<>>, allocation_pct |-> Num(20)])

InitScript ==
    /\ widgets = FirstWidgets
    /\ discount_rate = RatDiv(widgets.rate_pct, Num(Percent))
    /\ allocation_pct = RatDiv(widgets.allocation_pct, Num(Percent))
    /\ lists = ScriptLists(widgets)
    /\ assets = ScriptAssets(widgets, NoRun)
    /\ returned = [n \in DOMAIN assets |-> <<net_present_value(assets[n], lists)>>]
    /\ calls = [n \in DOMAIN assets |-> 3]
    /\ total_value = TotalValue(returned)
    /\ shown = Page(assets, lists, returned, total_value)
    /\ given = None
    /\ seen = None

\* the user moves "Number of forecast years"
SetYears(y) ==
    /\ y # widgets.years
    /\ Rerun([widgets EXCEPT !.years = y])

\* the user moves "Discount Rate (%)"
SetRate(p) ==
    /\ p # widgets.rate_pct
    /\ Rerun([widgets EXCEPT !.rate_pct = p])

\* the user types into "Year k Cash Flow"
SetLicensed(k, v) ==
    /\ k \in 1..widgets.years
    /\ v # widgets.licensed[k]
    /\ Rerun([widgets EXCEPT !.licensed[k] = v])

\* the user types into "Estimated Sale Value"
SetSaleValue(v) ==
    /\ v # widgets.sale_value
    /\ Rerun([widgets EXCEPT !.sale_value = v])

\* the user moves "Years Until Sale", a slider from 1 to years
SetSaleYear(y) ==
    /\ y \in SaleYearMin..widgets.years
    /\ y # widgets.sale_year.value
    /\ Rerun([widgets EXCEPT !.sale_year.value = y])

\* the user types into "App Revenue Year k"
SetRevenue(k, v) ==
    /\ k \in 1..widgets.years
    /\ v # widgets.revenue[k]
    /\ Rerun([widgets EXCEPT !.revenue[k] = v])

\* the user moves "Allocation to IP (%)"
SetAllocation(p) ==
    /\ p # widgets.allocation_pct
    /\ Rerun([widgets EXCEPT !.allocation_pct = p])

NextScript ==
    \/ \E y \in Horizons : SetYears(y)
    \/ \E p \in RatePcts : SetRate(p)
    \/ \E k \in EditedYears, v \in LicensedInputs : SetLicensed(k, v)
    \/ \E v \in SaleValueInputs : SetSaleValue(v)
    \/ \E y \in 1..MaxYears : SetSaleYear(y)
    \/ \E k \in EditedYears :
           \E v \in RevenueInputs \cup {RevenueDefault(k)} : SetRevenue(k, v)
    \/ \E p \in AllocationPcts : SetAllocation(p)

SpecScript == InitScript /\ [][NextScript]_vars

\* what a cycle produced
Outputs ==
    [lists |-> lists, assets |-> assets, returned |-> returned,
     total_value |-> total_value, shown |-> shown]

\* an observer notes the cycle just completed: its inputs and its outputs
Note ==
    /\ seen.cls = "None"
    /\ seen' = [cls |-> "Cycle", inputs |-> widgets, outputs |-> Outputs,
                since |-> 0]
    /\ UNCHANGED <<lists, assets, discount_rate, allocation_pct, returned,
                   calls, given, widgets, total_value, shown>>

\* Reruns with one cycle noted along the way
NextCycles ==
    \/ \E y \in Horizons : SetYears(y)
    \/ \E p \in RatePcts : SetRate(p)
    \/ \E v \in {Num(0), Num(LicensedDefault)} : SetLicensed(1, v)
    \/ \E p \in AllocationPcts : SetAllocation(p)
    \/ Note

SpecCycles == InitScript /\ [][NextCycles]_vars

----------------------------------------------------------------------------
(* Properties of the script (checked under SpecScript and SpecCycles) *)

Displayed == <<"Licensed IP", "Internal IP", "Subscription IP">>

\* the sum of the figures on the three per-asset lines, in cents
SumOfLines ==
    shown.lines[1].npv + shown.lines[2].npv + shown.lines[3].npv

\* C5 as claimed: the displayed total is the sum of the three displayed
\* per-asset NPVs.
C5_DisplayedFiguresAddUp ==
    /\ Len(shown.lines) = 3
    /\ shown.total = SumOfLines

\* C5, amended: total_value is the sum of the NPVs of the cycle's licensed,
\* internal and subscription assets, each counted once; the page shows
\* total_value rounded to cents and, in portfolio order, each asset's name
\* with its own NPV rounded to cents.
C5_TotalIsSumOfNPVs ==
    /\ total_value =
           RatAdd(RatAdd(net_present_value(assets["licensed"], lists),
                         net_present_value(assets["internal"], lists)),
                  net_present_value(assets["sub_ip"], lists))
    /\ shown.total = Cents(total_value)
    /\ Len(shown.lines) = 3
    /\ \A k \in 1..3 :
           /\ shown.lines[k].name = Displayed[k]
           /\ assets[Names[k]].name = Displayed[k]
           /\ shown.lines[k].npv = Cents(net_present_value(assets[Names[k]], lists))

\* a cycle whose three NPVs are all non-zero and whose displayed figures do
\* not add up to the displayed total
C5_Witness ==
    /\ \A k \in 1..3 : shown.lines[k].npv > 0
    /\ shown.total # SumOfLines

\* C9: in every cycle the forecast horizon is within 3..10 and the
\* InternalIP is built with years_until_sale between 1 and the horizon.
C9_SaleYearWithinHorizon ==
    /\ widgets.years \in MinYears..MaxYears
    /\ assets["internal"].cls = "InternalIP"
    /\ assets["internal"].years_until_sale \in 1..widgets.years

\* the sale is put in the last year of a horizon longer than the default
C9_Witness ==
    /\ widgets.years > SaleYearDefault
    /\ assets["internal"].years_until_sale = widgets.years

\* C10: a cycle with the same inputs as a cycle noted earlier produces the
\* same lists, instances, NPVs, total and page, whatever ran in between.
C10_SameInputsSameOutputs ==
    seen.cls = "Cycle" /\ seen.inputs = widgets => seen.outputs = Outputs

\* the noted cycle's inputs are back after at least two later reruns
C10_Witness ==
    /\ seen.cls = "Cycle"
    /\ seen.since >= 2
    /\ seen.inputs = widgets

====
